---- MODULE Spec2Model ----
(***************************************************************************)
(* A model of the rank/select dictionary RSDic (package rsdic).            *)
(*                                                                         *)
(* A uint64 is a tuple of four 16-bit limbs, least significant first, so   *)
(* that every shift, mask, comparison and subtraction of the source is     *)
(* computed at its real width of 64 bits.  Counters and lengths (num,      *)
(* oneNum, codeLen, ...) are uint64 in the source and stay far below 2^31  *)
(* within the bounds of the model; they are integers here.                 *)
(***************************************************************************)
EXTENDS Integers, Sequences, FiniteSets, TLC

\* ------------------------------------------------------------------------
\* Program constants
\* ------------------------------------------------------------------------
smallBlockSize == 64
largeBlockSize == 1024
selectBlockSize == 4096
useRawLen == 48
smallBlockPerLargeBlock == largeBlockSize \div smallBlockSize

\* ------------------------------------------------------------------------
\* uint64 arithmetic on limbs
\* ------------------------------------------------------------------------
Limb == 2^16
NLimbs == 64 \div 16
Zero64 == <<0, 0, 0, 0>>
One64 == <<1, 0, 0, 0>>

\* The uint64 of a small natural number (below 2^31).
U64(n) == <<n % Limb, (n \div Limb) % Limb, 0, 0>>

\* The natural number of a uint64 below 2^31.
Int64(x) == x[1] + Limb * x[2]

\* a >= b on uint64
Geq64(a, b) ==
    IF a[4] # b[4] THEN a[4] > b[4]
    ELSE IF a[3] # b[3] THEN a[3] > b[3]
    ELSE IF a[2] # b[2] THEN a[2] > b[2]
    ELSE a[1] >= b[1]

\* a + b modulo 2^64
Add64(a, b) ==
    LET s1 == a[1] + b[1]
        s2 == a[2] + b[2] + (s1 \div Limb)
        s3 == a[3] + b[3] + (s2 \div Limb)
        s4 == a[4] + b[4] + (s3 \div Limb)
    IN  <<s1 % Limb, s2 % Limb, s3 % Limb, s4 % Limb>>

\* a - b modulo 2^64
Sub64(a, b) ==
    LET d1 == a[1] - b[1]
        d2 == a[2] - b[2] - (IF d1 < 0 THEN 1 ELSE 0)
        d3 == a[3] - b[3] - (IF d2 < 0 THEN 1 ELSE 0)
        d4 == a[4] - b[4] - (IF d3 < 0 THEN 1 ELSE 0)
    IN  <<d1 % Limb, d2 % Limb, d3 % Limb, d4 % Limb>>

\* Limb i (1-based) of x, 0 outside the word.
LimbAt(x, i) == IF i >= 1 /\ i <= NLimbs THEN x[i] ELSE 0

\* x << k on uint64; Go yields 0 for k >= 64.
Shl64(x, k) ==
    IF k >= 64 THEN Zero64
    ELSE LET q == k \div 16
             r == k % 16
             p == 2^r
             l(i) == ((LimbAt(x, i - q) * p) % Limb)
                     + ((LimbAt(x, i - q - 1) * p) \div Limb)
         IN  <<l(1), l(2), l(3), l(4)>>

\* x >> k on uint64; Go yields 0 for k >= 64.
Shr64(x, k) ==
    IF k >= 64 THEN Zero64
    ELSE LET q == k \div 16
             r == k % 16
             p == 2^r
             l(i) == (LimbAt(x, i + q) \div p)
                     + ((LimbAt(x, i + q + 1) % p) * (Limb \div p))
         IN  <<l(1), l(2), l(3), l(4)>>

RECURSIVE OrInt(_, _)
OrInt(a, b) ==
    IF a = 0 THEN b
    ELSE IF b = 0 THEN a
    ELSE (IF a % 2 = 1 \/ b % 2 = 1 THEN 1 ELSE 0)
         + 2 * OrInt(a \div 2, b \div 2)

\* a | b
Or64(a, b) ==
    <<OrInt(a[1], b[1]), OrInt(a[2], b[2]), OrInt(a[3], b[3]), OrInt(a[4], b[4])>>

\* x & ((1 << k) - 1) for 0 <= k < 64
Mask64(x, k) ==
    LET q == k \div 16
        r == k % 16
        l(i) == IF i <= q THEN x[i]
                ELSE IF i = q + 1 THEN x[i] % (2^r)
                ELSE 0
    IN  <<l(1), l(2), l(3), l(4)>>

\* ^x
Not64(x) ==
    <<(Limb - 1) - x[1], (Limb - 1) - x[2], (Limb - 1) - x[3], (Limb - 1) - x[4]>>

RECURSIVE PopInt(_)
PopInt(a) == IF a = 0 THEN 0 ELSE (a % 2) + PopInt(a \div 2)

\* bits.OnesCount64
OnesCount64(x) == PopInt(x[1]) + PopInt(x[2]) + PopInt(x[3]) + PopInt(x[4])

\* ------------------------------------------------------------------------
\* Bit utilities
\* ------------------------------------------------------------------------
\* Fault: the quotient plus one instead of the ceiling.
floorPlusOne(n, div) == (n \div div) + 1

floor(n, div) == (n + div - 1) \div div

decompose(x, y) == <<x \div y, x % y>>

\* Fault: bit pos + 1 instead of bit pos.
getBitNext(x, pos) ==
    IF pos + 1 >= 64 THEN FALSE
    ELSE (x[((pos + 1) \div 16) + 1] \div (2^((pos + 1) % 16))) % 2 = 1

\* ((x >> pos) & 1) == 1
getBit(x, pos) ==
    IF pos >= 64 THEN FALSE
    ELSE (x[(pos \div 16) + 1] \div (2^(pos % 16))) % 2 = 1

\* Fault: the part of a code beyond the word boundary is not written.
setSliceNoSpill(bits, pos, codeLen, val) ==
    IF codeLen = 0 THEN bits
    ELSE LET block == decompose(pos, smallBlockSize)[1]
             offset == decompose(pos, smallBlockSize)[2]
         IN  [bits EXCEPT ![block + 1] = Or64(@, Shl64(val, offset))]

\* The word array after setSlice(bits, pos, codeLen, val).  Word j of the Go
\* slice is bits[j + 1].
setSlice(bits, pos, codeLen, val) ==
    IF codeLen = 0 THEN bits
    ELSE LET block == decompose(pos, smallBlockSize)[1]
             offset == decompose(pos, smallBlockSize)[2]
             first == [bits EXCEPT ![block + 1] = Or64(@, Shl64(val, offset))]
         IN  IF offset + codeLen > smallBlockSize
             THEN [first EXCEPT ![block + 2] =
                       Or64(@, Shr64(val, smallBlockSize - offset))]
             ELSE first

getSlice(bits, pos, codeLen) ==
    IF codeLen = 0 THEN Zero64
    ELSE LET block == decompose(pos, smallBlockSize)[1]
             offset == decompose(pos, smallBlockSize)[2]
             low == Shr64(bits[block + 1], offset)
             ret == IF offset + codeLen > smallBlockSize
                    THEN Or64(low, Shl64(bits[block + 2], smallBlockSize - offset))
                    ELSE low
         IN  IF codeLen = 64 THEN ret ELSE Mask64(ret, codeLen)

\* Fault: the two counts exchanged.
bitNumSwapped(x, n, b) == IF b THEN n - x ELSE x

bitNum(x, n, b) == IF b THEN x ELSE n - x

\* ------------------------------------------------------------------------
\* Enumerative block codec
\* ------------------------------------------------------------------------
\* for i := from; i < from + n; i++ { st = Step(st, i); if st.done { break } }
\* A loop state is a record whose field done tells that the loop was left by
\* break or return.  The iterations are run in two halves, first half first.
RECURSIVE For(_, _, _, _)
For(Step(_, _), st, from, n) ==
    IF n = 0 \/ st.done THEN st
    ELSE IF n = 1 THEN Step(st, from)
    ELSE LET h == n \div 2
             mid == For(Step, st, from, h)
         IN  IF mid.done THEN mid ELSE For(Step, mid, from + h, n - h)

\* Row n + 1 of Pascal's triangle appended to rows 0..n: C(n + 1, k), k <= 64.
PascalStep(st, n) ==
    LET prev == st.rows[n + 1]
    IN  [st EXCEPT !.rows =
            Append(@, [k \in 1..(smallBlockSize + 1) |->
                          IF k = 1 THEN One64
                          ELSE Add64(prev[k - 1], prev[k])])]

PascalTable ==
    For(PascalStep,
        [rows |-> << [k \in 1..(smallBlockSize + 1) |->
                         IF k = 1 THEN One64 ELSE Zero64] >>,
         done |-> FALSE],
        0, smallBlockSize).rows

\* combinationTable64[n][k] = C(n, k), 0 <= n, k <= 64
combinationTable64 ==
    [n \in 0..smallBlockSize |->
        [k \in 0..smallBlockSize |-> PascalTable[n + 1][k + 1]]]

\* enumCodeLength[c]: bits of the code of a block with c ones; 64 is the raw
\* fallback for a code of useRawLen bits or more.
enumCodeLength ==
    [c \in 0..smallBlockSize |->
        << 0, 6, 11, 16, 20, 23, 27, 30, 33, 35, 38, 40, 42, 44, 46,
           64, 64, 64, 64, 64, 64, 64, 64, 64, 64, 64, 64, 64, 64, 64, 64, 64,
           64, 64, 64, 64, 64, 64, 64, 64, 64, 64, 64, 64, 64, 64, 64, 64, 64, 64,
           46, 44, 42, 40, 38, 35, 33, 30, 27, 23, 20, 16, 11, 6, 0 >>[c + 1]]

\* Position of the rank-th set bit of code (rank counted from 1); 0 if none.
selectRaw(code, rank) ==
    LET Step(st, i) ==
            IF getBit(code, i)
            THEN IF st.rank = 1 THEN [st EXCEPT !.ret = i, !.done = TRUE]
                 ELSE [st EXCEPT !.rank = @ - 1]
            ELSE st
    IN  For(Step, [rank |-> rank, ret |-> 0, done |-> FALSE],
            0, smallBlockSize).ret

enumEncode(val, rankSB) ==
    IF enumCodeLength[rankSB] = smallBlockSize THEN val
    ELSE LET Step(st, i) ==
                 IF getBit(val, i)
                 THEN [st EXCEPT
                         !.code = Add64(@, combinationTable64
                                      [smallBlockSize - i - 1][st.rankSB]),
                         !.rankSB = @ - 1]
                 ELSE st
         IN  For(Step, [code |-> Zero64, rankSB |-> rankSB, done |-> FALSE],
                 0, smallBlockSize).code

\* One step of the decoding walk shared by enumBit, enumRank and enumDecode:
\* position i holds a one iff code >= C(64 - i - 1, rankSB).
enumStep(st, i) ==
    LET zeroCaseNum == combinationTable64[smallBlockSize - i - 1][st.rankSB]
    IN  IF Geq64(st.code, zeroCaseNum)
        THEN [st EXCEPT !.code = Sub64(@, zeroCaseNum), !.rankSB = @ - 1]
        ELSE st

\* The walk over positions 0 .. pos-1.
enumWalk(code, rankSB, pos) ==
    For(enumStep, [code |-> code, rankSB |-> rankSB, done |-> FALSE], 0, pos)

enumBit(code, rankSB, pos) ==
    IF enumCodeLength[rankSB] = smallBlockSize THEN getBit(code, pos)
    ELSE LET w == enumWalk(code, rankSB, pos)
         IN  Geq64(w.code, combinationTable64[smallBlockSize - pos - 1][w.rankSB])

enumRank(code, rankSB, pos) ==
    IF enumCodeLength[rankSB] = smallBlockSize
    THEN OnesCount64(Mask64(code, pos))
    ELSE rankSB - enumWalk(code, rankSB, pos).rankSB

enumSelect1(code, rankSB, rank) ==
    IF enumCodeLength[rankSB] = smallBlockSize THEN selectRaw(code, rank)
    ELSE LET Step(st, i) ==
                 LET zeroCaseNum ==
                         combinationTable64[smallBlockSize - i - 1][st.rankSB]
                 IN  IF Geq64(st.code, zeroCaseNum)
                     THEN IF st.rank = 1
                          THEN [st EXCEPT !.ret = i, !.done = TRUE]
                          ELSE [st EXCEPT !.rank = @ - 1,
                                          !.code = Sub64(@, zeroCaseNum),
                                          !.rankSB = @ - 1]
                     ELSE st
         IN  For(Step, [code |-> code, rankSB |-> rankSB, rank |-> rank,
                        ret |-> 0, done |-> FALSE],
                 0, smallBlockSize).ret

enumSelect0(code, rankSB, rank) ==
    IF enumCodeLength[rankSB] = smallBlockSize THEN selectRaw(Not64(code), rank)
    ELSE LET Step(st, i) ==
                 LET zeroCaseNum ==
                         combinationTable64[smallBlockSize - i - 1][st.rankSB]
                 IN  IF Geq64(st.code, zeroCaseNum)
                     THEN [st EXCEPT !.code = Sub64(@, zeroCaseNum),
                                     !.rankSB = @ - 1]
                     ELSE IF st.rank = 1
                          THEN [st EXCEPT !.ret = i, !.done = TRUE]
                          ELSE [st EXCEPT !.rank = @ - 1]
         IN  For(Step, [code |-> code, rankSB |-> rankSB, rank |-> rank,
                        ret |-> 0, done |-> FALSE],
                 0, smallBlockSize).ret

\* ------------------------------------------------------------------------
\* The dictionary
\* ------------------------------------------------------------------------
\* New(): the empty dictionary.  Slices are sequences; element j of a Go slice
\* is element j + 1 of the sequence.
New ==
    [ bits            |-> << >>,
      pointerBlocks   |-> << >>,
      rankBlocks      |-> << >>,
      selectOneInds   |-> << >>,
      selectZeroInds  |-> << >>,
      rankSmallBlocks |-> << >>,
      num             |-> 0,
      oneNum          |-> 0,
      zeroNum         |-> 0,
      lastBlock       |-> Zero64,
      lastOneNum      |-> 0,
      lastZeroNum     |-> 0,
      codeLen         |-> 0 ]

Num(rs) == rs.num

OneNum(rs) == rs.oneNum

ZeroNum(rs) == rs.zeroNum

\* Fault: the pending block's zero count is not reset.
flushBlockKeepZeros(rs) ==
    LET rankSB == rs.lastOneNum
        codeLen == enumCodeLength[rankSB]
        code == enumEncode(rs.lastBlock, rankSB)
        newSize == floor(rs.codeLen + codeLen, smallBlockSize)
        grown == IF newSize > Len(rs.bits) THEN Append(rs.bits, Zero64)
                 ELSE rs.bits
    IN  [rs EXCEPT !.rankSmallBlocks = Append(@, rankSB),
                   !.bits = setSlice(grown, rs.codeLen, codeLen, code),
                   !.lastBlock = Zero64,
                   !.lastOneNum = 0,
                   !.codeLen = @ + codeLen]

\* Fault: a word is appended also when the size is already enough.
flushBlockGrowEager(rs) ==
    LET rankSB == rs.lastOneNum
        codeLen == enumCodeLength[rankSB]
        code == enumEncode(rs.lastBlock, rankSB)
        newSize == floor(rs.codeLen + codeLen, smallBlockSize)
        grown == IF newSize >= Len(rs.bits) THEN Append(rs.bits, Zero64)
                 ELSE rs.bits
    IN  [rs EXCEPT !.rankSmallBlocks = Append(@, rankSB),
                   !.bits = setSlice(grown, rs.codeLen, codeLen, code),
                   !.lastBlock = Zero64,
                   !.lastZeroNum = 0,
                   !.lastOneNum = 0,
                   !.codeLen = @ + codeLen]

\* Fault: the zero count of the block is recorded in rankSmallBlocks.
flushBlockCountsZeros(rs) ==
    LET rankSB == rs.lastOneNum
        codeLen == enumCodeLength[rankSB]
        code == enumEncode(rs.lastBlock, rankSB)
        newSize == floor(rs.codeLen + codeLen, smallBlockSize)
        grown == IF newSize > Len(rs.bits) THEN Append(rs.bits, Zero64)
                 ELSE rs.bits
    IN  [rs EXCEPT !.rankSmallBlocks = Append(@, rs.lastZeroNum),
                   !.bits = setSlice(grown, rs.codeLen, codeLen, code),
                   !.lastBlock = Zero64,
                   !.lastZeroNum = 0,
                   !.lastOneNum = 0,
                   !.codeLen = @ + codeLen]

\* The part of writeBlock guarded by num > 0: code the pending block.
flushBlock(rs) ==
    LET rankSB == rs.lastOneNum
        codeLen == enumCodeLength[rankSB]
        code == enumEncode(rs.lastBlock, rankSB)
        newSize == floor(rs.codeLen + codeLen, smallBlockSize)
        grown == IF newSize > Len(rs.bits) THEN Append(rs.bits, Zero64)
                 ELSE rs.bits
    IN  [rs EXCEPT !.rankSmallBlocks = Append(@, rankSB),
                   !.bits = setSlice(grown, rs.codeLen, codeLen, code),
                   !.lastBlock = Zero64,
                   !.lastZeroNum = 0,
                   !.lastOneNum = 0,
                   !.codeLen = @ + codeLen]

\* Fault: the large-block test uses the small-block size.
writeBlockEverySmall(rs) ==
    LET r1 == IF rs.num > 0 THEN flushBlock(rs) ELSE rs
    IN  IF (r1.num % smallBlockSize) = 0
        THEN [r1 EXCEPT !.rankBlocks = Append(@, r1.oneNum),
                        !.pointerBlocks = Append(@, r1.codeLen)]
        ELSE r1

\* Fault: the large-block entry is written only under num > 0.
writeBlockGuarded(rs) ==
    IF rs.num > 0
    THEN LET r1 == flushBlock(rs)
         IN  IF (r1.num % largeBlockSize) = 0
             THEN [r1 EXCEPT !.rankBlocks = Append(@, r1.oneNum),
                             !.pointerBlocks = Append(@, r1.codeLen)]
             ELSE r1
    ELSE rs

writeBlock(rs) ==
    LET r1 == IF rs.num > 0 THEN flushBlock(rs) ELSE rs
    IN  IF (r1.num % largeBlockSize) = 0
        THEN [r1 EXCEPT !.rankBlocks = Append(@, r1.oneNum),
                        !.pointerBlocks = Append(@, r1.codeLen)]
        ELSE r1

\* Fault: the sample test reads oneNum after the increment.
pushOneSampledAfter(rs) ==
    [rs EXCEPT
        !.lastBlock = Or64(@, Shl64(One64, rs.num % smallBlockSize)),
        !.selectOneInds =
            IF ((rs.oneNum + 1) % selectBlockSize) = 0
            THEN Append(@, rs.num \div largeBlockSize)
            ELSE @,
        !.oneNum = @ + 1,
        !.lastOneNum = @ + 1]

\* The branch of PushBack for a one, before num++.
pushOne(rs) ==
    [rs EXCEPT
        !.lastBlock = Or64(@, Shl64(One64, rs.num % smallBlockSize)),
        !.selectOneInds =
            IF (rs.oneNum % selectBlockSize) = 0
            THEN Append(@, rs.num \div largeBlockSize)
            ELSE @,
        !.oneNum = @ + 1,
        !.lastOneNum = @ + 1]

\* Fault: a zero is not counted in zeroNum.
pushZeroUncounted(rs) ==
    [rs EXCEPT
        !.selectZeroInds =
            IF (rs.zeroNum % selectBlockSize) = 0
            THEN Append(@, rs.num \div largeBlockSize)
            ELSE @,
        !.lastZeroNum = @ + 1]

\* The branch of PushBack for a zero, before num++.
pushZero(rs) ==
    [rs EXCEPT
        !.selectZeroInds =
            IF (rs.zeroNum % selectBlockSize) = 0
            THEN Append(@, rs.num \div largeBlockSize)
            ELSE @,
        !.zeroNum = @ + 1,
        !.lastZeroNum = @ + 1]

PushBack(rs, bit) ==
    LET r1 == IF (rs.num % smallBlockSize) = 0 THEN writeBlock(rs) ELSE rs
        r2 == IF bit THEN pushOne(r1) ELSE pushZero(r1)
    IN  [r2 EXCEPT !.num = @ + 1]

\* Fault: the start of the pending block is taken from num, not num - 1.
lastBlockIndOfNum(rs) ==
    IF rs.num = 0 THEN 0
    ELSE (rs.num \div smallBlockSize) * smallBlockSize

lastBlockInd(rs) ==
    IF rs.num = 0 THEN 0
    ELSE ((rs.num - 1) \div smallBlockSize) * smallBlockSize

isLastBlock(rs, pos) == pos >= lastBlockInd(rs)

\* The loop shared by Bit, Rank and BitAndRank over the small blocks
\* i .. sblock-1: <<pointer, rank>> after it.
RECURSIVE walkSmallBlocks(_, _, _, _, _)
walkSmallBlocks(rs, i, sblock, pointer, rank) ==
    IF i >= sblock THEN <<pointer, rank>>
    ELSE LET rankSB == rs.rankSmallBlocks[i + 1]
         IN  walkSmallBlocks(rs, i + 1, sblock,
                             pointer + enumCodeLength[rankSB], rank + rankSB)

Bit(rs, pos) ==
    IF isLastBlock(rs, pos)
    THEN getBit(rs.lastBlock, pos % smallBlockSize)
    ELSE LET lblock == pos \div largeBlockSize
             sblock == pos \div smallBlockSize
             pointer == walkSmallBlocks(rs, lblock * smallBlockPerLargeBlock,
                            sblock, rs.pointerBlocks[lblock + 1], 0)[1]
             rankSB == rs.rankSmallBlocks[sblock + 1]
             code == getSlice(rs.bits, pointer, enumCodeLength[rankSB])
         IN  enumBit(code, rankSB, pos % smallBlockSize)

Rank(rs, pos, bit) ==
    IF pos >= rs.num THEN bitNum(rs.oneNum, rs.num, bit)
    ELSE IF isLastBlock(rs, pos)
    THEN LET afterRank == OnesCount64(Shr64(rs.lastBlock, pos % smallBlockSize))
         IN  bitNum(rs.oneNum - afterRank, pos, bit)
    ELSE LET lblock == pos \div largeBlockSize
             sblock == pos \div smallBlockSize
             w == walkSmallBlocks(rs, lblock * smallBlockPerLargeBlock, sblock,
                      rs.pointerBlocks[lblock + 1], rs.rankBlocks[lblock + 1])
         IN  IF pos % smallBlockSize = 0 THEN bitNum(w[2], pos, bit)
             ELSE LET rankSB == rs.rankSmallBlocks[sblock + 1]
                      code == getSlice(rs.bits, w[1], enumCodeLength[rankSB])
                  IN  bitNum(w[2] + enumRank(code, rankSB, pos % smallBlockSize),
                             pos, bit)

\* Fault: the scan stops at a large block that starts with the wanted one.
RECURSIVE scanLarge1Inclusive(_, _, _)
scanLarge1Inclusive(rs, rank, lblock) ==
    IF lblock < Len(rs.rankBlocks) /\ ~(rank <= rs.rankBlocks[lblock + 1])
    THEN scanLarge1Inclusive(rs, rank, lblock + 1)
    ELSE lblock

\* for ; lblock < len(rankBlocks); lblock++ { if rank < rankBlocks[lblock] { break } }
RECURSIVE scanLarge1(_, _, _)
scanLarge1(rs, rank, lblock) ==
    IF lblock < Len(rs.rankBlocks) /\ ~(rank < rs.rankBlocks[lblock + 1])
    THEN scanLarge1(rs, rank, lblock + 1)
    ELSE lblock

\* The small-block loop of Select1: <<sblock, remain, pointer>> after it.
RECURSIVE scanSmall1(_, _, _, _)
scanSmall1(rs, sblock, remain, pointer) ==
    IF sblock < Len(rs.rankSmallBlocks)
       /\ ~(remain <= rs.rankSmallBlocks[sblock + 1])
    THEN LET rankSB == rs.rankSmallBlocks[sblock + 1]
         IN  scanSmall1(rs, sblock + 1, remain - rankSB,
                        pointer + enumCodeLength[rankSB])
    ELSE <<sblock, remain, pointer>>

\* Select1 when the answer is in the pending block.
select1Pending(rs, rank) ==
    LET lastBlockRank == rank - (rs.oneNum - rs.lastOneNum)
    IN  lastBlockInd(rs) + selectRaw(rs.lastBlock, lastBlockRank + 1)

\* Select1 when the answer is in a coded block.
select1Coded(rs, rank) ==
    LET selectInd == rank \div selectBlockSize
        lblock == scanLarge1(rs, rank, rs.selectOneInds[selectInd + 1]) - 1
        w == scanSmall1(rs, lblock * smallBlockPerLargeBlock,
                        rank - rs.rankBlocks[lblock + 1] + 1,
                        rs.pointerBlocks[lblock + 1])
        sblock == w[1]
        rankSB == rs.rankSmallBlocks[sblock + 1]
        code == getSlice(rs.bits, w[3], enumCodeLength[rankSB])
    IN  sblock * smallBlockSize + enumSelect1(code, rankSB, w[2])

\* Fault: the saturation test is off by one.
Select1LateSaturation(rs, rank) ==
    IF rank > rs.oneNum THEN rs.num
    ELSE IF rank >= rs.oneNum - rs.lastOneNum THEN select1Pending(rs, rank)
    ELSE select1Coded(rs, rank)

Select1(rs, rank) ==
    IF rank >= rs.oneNum THEN rs.num
    ELSE IF rank >= rs.oneNum - rs.lastOneNum THEN select1Pending(rs, rank)
    ELSE select1Coded(rs, rank)

\* for ; lblock < len(rankBlocks); lblock++ {
\*     if rank < lblock*largeBlockSize - rankBlocks[lblock] { break } }
RECURSIVE scanLarge0(_, _, _)
scanLarge0(rs, rank, lblock) ==
    IF lblock < Len(rs.rankBlocks)
       /\ ~(rank < lblock * largeBlockSize - rs.rankBlocks[lblock + 1])
    THEN scanLarge0(rs, rank, lblock + 1)
    ELSE lblock

\* Fault: the walk of Select0 leaves the pointer at the start of the large block.
RECURSIVE scanSmall0PointerKept(_, _, _, _)
scanSmall0PointerKept(rs, sblock, remain, pointer) ==
    IF sblock < Len(rs.rankSmallBlocks)
       /\ ~(remain <= smallBlockSize - rs.rankSmallBlocks[sblock + 1])
    THEN scanSmall0PointerKept(rs, sblock + 1,
                               remain - (smallBlockSize - rs.rankSmallBlocks[sblock + 1]),
                               pointer)
    ELSE <<sblock, remain, pointer>>

\* The small-block loop of Select0: <<sblock, remain, pointer>> after it.  The
\* pointer advances by enumCodeLength of the block's zero count.
RECURSIVE scanSmall0(_, _, _, _)
scanSmall0(rs, sblock, remain, pointer) ==
    IF sblock < Len(rs.rankSmallBlocks)
       /\ ~(remain <= smallBlockSize - rs.rankSmallBlocks[sblock + 1])
    THEN LET rankSB == smallBlockSize - rs.rankSmallBlocks[sblock + 1]
         IN  scanSmall0(rs, sblock + 1, remain - rankSB,
                        pointer + enumCodeLength[rankSB])
    ELSE <<sblock, remain, pointer>>

\* Select0 when the answer is in the pending block.
select0Pending(rs, rank) ==
    LET lastBlockRank == rank - (rs.zeroNum - rs.lastZeroNum)
    IN  lastBlockInd(rs) + selectRaw(Not64(rs.lastBlock), lastBlockRank + 1)

\* Select0 when the answer is in a coded block.
select0Coded(rs, rank) ==
    LET selectInd == rank \div selectBlockSize
        lblock == scanLarge0(rs, rank, rs.selectZeroInds[selectInd + 1]) - 1
        w == scanSmall0(rs, lblock * smallBlockPerLargeBlock,
                        rank - lblock * largeBlockSize
                            + rs.rankBlocks[lblock + 1] + 1,
                        rs.pointerBlocks[lblock + 1])
        sblock == w[1]
        rankSB == rs.rankSmallBlocks[sblock + 1]
        code == getSlice(rs.bits, w[3], enumCodeLength[rankSB])
    IN  sblock * smallBlockSize + enumSelect0(code, rankSB, w[2])

Select0(rs, rank) ==
    IF rank >= rs.zeroNum THEN rs.num
    ELSE IF rank >= rs.zeroNum - rs.lastZeroNum THEN select0Pending(rs, rank)
    ELSE select0Coded(rs, rank)

\* Fault: the two branches exchanged.
SelectSwapped(rs, rank, bit) ==
    IF bit THEN Select0(rs, rank) ELSE Select1(rs, rank)

Select(rs, rank, bit) == IF bit THEN Select1(rs, rank) ELSE Select0(rs, rank)

\* Fault: in the pending block the bit at pos is counted in the rank.
BitAndRankInclusive(rs, pos) ==
    IF isLastBlock(rs, pos)
    THEN LET offset == pos % smallBlockSize
             bit == getBit(rs.lastBlock, offset)
             afterRank == OnesCount64(Shr64(rs.lastBlock, offset + 1))
         IN  <<bit, bitNum(rs.oneNum - afterRank, pos, bit)>>
    ELSE LET lblock == pos \div largeBlockSize
             sblock == pos \div smallBlockSize
             w == walkSmallBlocks(rs, lblock * smallBlockPerLargeBlock, sblock,
                      rs.pointerBlocks[lblock + 1], rs.rankBlocks[lblock + 1])
             rankSB == rs.rankSmallBlocks[sblock + 1]
             code == getSlice(rs.bits, w[1], enumCodeLength[rankSB])
             rank == w[2] + enumRank(code, rankSB, pos % smallBlockSize)
             bit == enumBit(code, rankSB, pos % smallBlockSize)
         IN  <<bit, bitNum(rank, pos, bit)>>

\* BitAndRank(pos): the pair <<bit, rank>>.
BitAndRank(rs, pos) ==
    IF isLastBlock(rs, pos)
    THEN LET offset == pos % smallBlockSize
             bit == getBit(rs.lastBlock, offset)
             afterRank == OnesCount64(Shr64(rs.lastBlock, offset))
         IN  <<bit, bitNum(rs.oneNum - afterRank, pos, bit)>>
    ELSE LET lblock == pos \div largeBlockSize
             sblock == pos \div smallBlockSize
             w == walkSmallBlocks(rs, lblock * smallBlockPerLargeBlock, sblock,
                      rs.pointerBlocks[lblock + 1], rs.rankBlocks[lblock + 1])
             rankSB == rs.rankSmallBlocks[sblock + 1]
             code == getSlice(rs.bits, w[1], enumCodeLength[rankSB])
             rank == w[2] + enumRank(code, rankSB, pos % smallBlockSize)
             bit == enumBit(code, rankSB, pos % smallBlockSize)
         IN  <<bit, bitNum(rank, pos, bit)>>

AllocSize(rs) ==
    Len(rs.bits) * 8 + Len(rs.pointerBlocks) * 8 + Len(rs.rankBlocks) * 8
    + Len(rs.selectOneInds) * 8 + Len(rs.selectZeroInds) * 8
    + Len(rs.rankSmallBlocks) * 1

\* ------------------------------------------------------------------------
\* Serialization
\* ------------------------------------------------------------------------
\* The codec writes one self-delimited value per Encode call: an array of
\* unsigned integers for a []uint64, a byte string for a []uint8, an unsigned
\* integer for a uint64.  A uint64 field of the dictionary is either a
\* counter (an integer here) or the word lastBlock (limbs here).
Encode(kind, v) == [kind |-> kind, val |-> v]

\* Decode into a destination of the given kind: fails on another kind.
Decodable(kind, item) == item.kind = kind

\* The fields in the order MarshalBinary encodes them, with their kinds.
marshalOrder ==
    << <<"bits", "array">>, <<"pointerBlocks", "array">>,
       <<"rankBlocks", "array">>, <<"selectOneInds", "array">>,
       <<"selectZeroInds", "array">>, <<"rankSmallBlocks", "bytes">>,
       <<"num", "uint">>, <<"oneNum", "uint">>, <<"zeroNum", "uint">>,
       <<"lastBlock", "uint">>, <<"lastOneNum", "uint">>,
       <<"lastZeroNum", "uint">>, <<"codeLen", "uint">> >>

\* Fault: lastOneNum and lastZeroNum are decoded in the other order.
unmarshalOrderSwapped ==
    << <<"bits", "array">>, <<"pointerBlocks", "array">>,
       <<"rankBlocks", "array">>, <<"selectOneInds", "array">>,
       <<"selectZeroInds", "array">>, <<"rankSmallBlocks", "bytes">>,
       <<"num", "uint">>, <<"oneNum", "uint">>, <<"zeroNum", "uint">>,
       <<"lastBlock", "uint">>, <<"lastZeroNum", "uint">>,
       <<"lastOneNum", "uint">>, <<"codeLen", "uint">> >>

\* The fields in the order UnmarshalBinary decodes them, with their kinds.
unmarshalOrder ==
    << <<"bits", "array">>, <<"pointerBlocks", "array">>,
       <<"rankBlocks", "array">>, <<"selectOneInds", "array">>,
       <<"selectZeroInds", "array">>, <<"rankSmallBlocks", "bytes">>,
       <<"num", "uint">>, <<"oneNum", "uint">>, <<"zeroNum", "uint">>,
       <<"lastBlock", "uint">>, <<"lastOneNum", "uint">>,
       <<"lastZeroNum", "uint">>, <<"codeLen", "uint">> >>

\* MarshalBinary: the values written to out, in order (the codec not failing).
MarshalBinary(rs) ==
    [i \in 1..Len(marshalOrder) |->
        Encode(marshalOrder[i][2], rs[marshalOrder[i][1]])]

\* UnmarshalBinary: [rs |-> the receiver afterwards, done |-> an error was
\* returned].  Decoding stops at the first value that is missing or of
\* another kind; the fields decoded before it stay written.
UnmarshalBinary(rs, in) ==
    LET Step(st, i) ==
            IF i + 1 <= Len(in) /\ Decodable(unmarshalOrder[i + 1][2], in[i + 1])
            THEN [st EXCEPT !.rs[unmarshalOrder[i + 1][1]] = in[i + 1].val]
            ELSE [st EXCEPT !.done = TRUE]
    IN  For(Step, [rs |-> rs, done |-> FALSE], 0, Len(unmarshalOrder))

\* ------------------------------------------------------------------------
\* The caller
\* ------------------------------------------------------------------------
MaxNum == 130

Rep(b, n) == [i \in 1..n |-> b]

\* One bit in seven set: blocks of 10 and 9 ones, coded in 38 and 35 bits.
Sparse7 == [i \in 1..smallBlockSize |-> (i % 7) = 1]

\* One bit in five set: blocks of 13 ones, coded in 44 bits.
Sparse5 == [i \in 1..smallBlockSize |-> (i % 5) = 1]

\* Alternating bits: blocks of 32 ones, stored raw.
Alt == [i \in 1..smallBlockSize |-> (i % 2) = 0]

\* The streams the caller appends: stream w is w repeated for ever.
Patterns ==
    { <<FALSE>>, <<TRUE>>, <<FALSE, TRUE>>,
      <<TRUE, FALSE, FALSE, FALSE, FALSE, FALSE, FALSE>>,
      <<FALSE, TRUE, TRUE, TRUE, TRUE, TRUE, TRUE>>,
      Rep(TRUE, smallBlockSize) \o Rep(FALSE, smallBlockSize),
      Rep(FALSE, smallBlockSize) \o Rep(TRUE, smallBlockSize),
      Sparse7 \o Alt,
      Alt \o Sparse7,
      Sparse5,
      <<TRUE>> \o Rep(FALSE, smallBlockSize - 1),
      <<FALSE>> \o Rep(TRUE, smallBlockSize - 1) }

\* The streams of the specifications with queries and with serialization.
FewPatterns ==
    { <<TRUE, FALSE, FALSE, FALSE, FALSE, FALSE, FALSE>>,
      Alt \o Sparse7 }

\* The longest long stream and the longest sparse stream.
MaxLong == 1154

MaxSparse == 6146

\* One bit in seven clear: blocks of 54 and 55 ones, coded in 38 and 35 bits.
Dense7 == [i \in 1..smallBlockSize |-> (i % 7) # 1]

\* n copies of w.
RECURSIVE Blocks(_, _)
Blocks(w, n) == IF n = 0 THEN << >> ELSE w \o Blocks(w, n - 1)

\* A stream that goes into a second large block: sixteen small blocks with
\* raw, enumerative and empty codes, then enumerative codes in large block 1.
LongPatterns ==
    { Blocks(Alt, 11) \o Sparse7 \o Dense7 \o Rep(TRUE, smallBlockSize)
          \o Sparse5 \o Rep(FALSE, smallBlockSize)
          \o Sparse5 \o Dense7 \o Sparse7 }

\* Streams whose first one, or first zero, stands in large block 1.
ScanPatterns ==
    { Rep(FALSE, largeBlockSize) \o Sparse7 \o Dense7 \o Alt,
      Rep(TRUE, largeBlockSize) \o Dense7 \o Sparse5 \o Alt }

\* Streams that reach a second select sample: 1024 bits of one kind, one bit
\* of the other kind, 1024 bits of the first kind, 4097 bits of the other.
SparsePatterns ==
    { Rep(TRUE, largeBlockSize) \o <<FALSE>> \o Rep(TRUE, largeBlockSize)
          \o Rep(FALSE, selectBlockSize + 1),
      Rep(FALSE, largeBlockSize) \o <<TRUE>> \o Rep(FALSE, largeBlockSize)
          \o Rep(TRUE, selectBlockSize + 1) }

\* The number of bits the caller appends of stream w at most.
Limit(w) ==
    IF w \in SparsePatterns THEN MaxSparse
    ELSE IF w \in LongPatterns \cup ScanPatterns THEN MaxLong
    ELSE MaxNum

\* Bit i (from 0) of stream w.
StreamBit(w, i) == w[(i % Len(w)) + 1]

NoRet == [op |-> "none", arg |-> << >>, val |-> "nil"]

NoOut == << >>

\* rs:    the dictionary D
\* B:     the bits appended to D so far
\* cands: the streams that agree with B
\* ret:   the last call of a query and what it returned
\* out:   the caller's buffer holding the last MarshalBinary of D
\* rs2:   a second dictionary D', which UnmarshalBinary fills from out
\* att:   D' has been filled from D and has received the same bits since
VARIABLES rs, B, cands, ret, out, rs2, att

vars == <<rs, B, cands, ret, out, rs2, att>>

InitWith(streams) ==
    /\ rs = New
    /\ B = << >>
    /\ cands = streams
    /\ ret = NoRet
    /\ out = NoOut
    /\ rs2 = New
    /\ att = FALSE

Init == InitWith(Patterns)

InitFew == InitWith(FewPatterns)

InitLong == InitWith(LongPatterns)

InitScan == InitWith(ScanPatterns)

InitSparse == InitWith(SparsePatterns)

\* The streams of cands that go on after n bits with bit.
Continue(n, bit) == {w \in cands : n < Limit(w) /\ StreamBit(w, n) = bit}

\* A caller appends one bit, the next bit of one of the streams that agree
\* with the bits appended so far, to D, and to D' as well once D' has been
\* filled from D.  It drops the buffer of the last MarshalBinary.
PushBackStep ==
    /\ \E bit \in BOOLEAN :
          /\ Continue(rs.num, bit) # {}
          /\ rs' = PushBack(rs, bit)
          /\ rs2' = IF att THEN PushBack(rs2, bit) ELSE rs2
          /\ B' = Append(B, bit)
          /\ cands' = Continue(rs.num, bit)
    /\ ret' = NoRet
    /\ out' = NoOut
    /\ UNCHANGED att

\* PushBack of the bits of seq in turn, as the caller's loop does.
PushAll(d, seq) ==
    LET Step(st, i) == [st EXCEPT !.rs = PushBack(@, seq[i + 1])]
    IN  For(Step, [rs |-> d, done |-> FALSE], 0, Len(seq)).rs

\* A caller appends the next 64 bits of one of the streams that agree with
\* the bits appended so far, by 64 calls of PushBack in a row.
PushBlockStep ==
    /\ \E w \in cands :
          LET seq == [j \in 1..smallBlockSize |-> StreamBit(w, rs.num + j - 1)]
          IN  /\ rs.num + smallBlockSize <= Limit(w)
              /\ rs' = PushAll(rs, seq)
              /\ rs2' = IF att THEN PushAll(rs2, seq) ELSE rs2
              /\ B' = B \o seq
              /\ cands' = {v \in cands :
                             /\ rs.num + smallBlockSize <= Limit(v)
                             /\ \A j \in 1..smallBlockSize :
                                   StreamBit(v, rs.num + j - 1) = seq[j]}
    /\ ret' = NoRet
    /\ out' = NoOut
    /\ UNCHANGED att

\* The arguments the queries are called with.
QueryArgs ==
    {0, smallBlockSize - 1, smallBlockSize, rs.num - 1, rs.num}
        \cap 0..rs.num

\* The methods with a value receiver: they return a value and write no field.
NumStep ==
    /\ ret' = [op |-> "Num", arg |-> << >>, val |-> Num(rs)]
    /\ UNCHANGED <<rs, B, cands, out, rs2, att>>

OneNumStep ==
    /\ ret' = [op |-> "OneNum", arg |-> << >>, val |-> OneNum(rs)]
    /\ UNCHANGED <<rs, B, cands, out, rs2, att>>

ZeroNumStep ==
    /\ ret' = [op |-> "ZeroNum", arg |-> << >>, val |-> ZeroNum(rs)]
    /\ UNCHANGED <<rs, B, cands, out, rs2, att>>

BitStep ==
    \E pos \in QueryArgs :
        /\ pos < rs.num
        /\ ret' = [op |-> "Bit", arg |-> <<pos>>, val |-> Bit(rs, pos)]
        /\ UNCHANGED <<rs, B, cands, out, rs2, att>>

\* Fault: Rank on a pointer receiver shifts lastBlock in place.
RankStepInPlace ==
    \E pos \in QueryArgs, bit \in BOOLEAN :
        /\ ret' = [op |-> "Rank", arg |-> <<pos, bit>>, val |-> Rank(rs, pos, bit)]
        /\ rs' = IF isLastBlock(rs, pos) /\ pos < rs.num
                 THEN [rs EXCEPT !.lastBlock = Shr64(@, pos % smallBlockSize)]
                 ELSE rs
        /\ UNCHANGED <<B, cands, out, rs2, att>>

RankStep ==
    \E pos \in QueryArgs, bit \in BOOLEAN :
        /\ ret' = [op |-> "Rank", arg |-> <<pos, bit>>, val |-> Rank(rs, pos, bit)]
        /\ UNCHANGED <<rs, B, cands, out, rs2, att>>

SelectStep ==
    \E rank \in QueryArgs, bit \in BOOLEAN :
        /\ ret' = [op |-> "Select", arg |-> <<rank, bit>>,
                   val |-> Select(rs, rank, bit)]
        /\ UNCHANGED <<rs, B, cands, out, rs2, att>>

Select1Step ==
    \E rank \in QueryArgs :
        /\ ret' = [op |-> "Select1", arg |-> <<rank>>, val |-> Select1(rs, rank)]
        /\ UNCHANGED <<rs, B, cands, out, rs2, att>>

Select0Step ==
    \E rank \in QueryArgs :
        /\ ret' = [op |-> "Select0", arg |-> <<rank>>, val |-> Select0(rs, rank)]
        /\ UNCHANGED <<rs, B, cands, out, rs2, att>>

BitAndRankStep ==
    \E pos \in QueryArgs :
        /\ pos < rs.num
        /\ ret' = [op |-> "BitAndRank", arg |-> <<pos>>,
                   val |-> BitAndRank(rs, pos)]
        /\ UNCHANGED <<rs, B, cands, out, rs2, att>>

AllocSizeStep ==
    /\ ret' = [op |-> "AllocSize", arg |-> << >>, val |-> AllocSize(rs)]
    /\ UNCHANGED <<rs, B, cands, out, rs2, att>>

\* MarshalBinary of D into the caller's buffer.
MarshalBinaryStep ==
    /\ out' = MarshalBinary(rs)
    /\ ret' = [op |-> "MarshalBinary", arg |-> << >>, val |-> "nil"]
    /\ UNCHANGED <<rs, B, cands, rs2, att>>

\* UnmarshalBinary of the buffer into D'.
UnmarshalBinaryStep ==
    /\ out # NoOut
    /\ LET u == UnmarshalBinary(rs2, out)
       IN  /\ rs2' = u.rs
           /\ att' = ~u.done
           /\ ret' = [op |-> "UnmarshalBinary", arg |-> << >>,
                      val |-> IF u.done THEN "error" ELSE "nil"]
    /\ UNCHANGED <<rs, B, cands, out>>

QueryStep ==
    \/ NumStep
    \/ OneNumStep
    \/ ZeroNumStep
    \/ BitStep
    \/ RankStep
    \/ SelectStep
    \/ Select1Step
    \/ Select0Step
    \/ BitAndRankStep
    \/ AllocSizeStep
    \/ MarshalBinaryStep

Next == PushBackStep

Spec == Init /\ [][Next]_vars

\* The dictionary under appends and queries.
NextQuery == PushBackStep \/ QueryStep

SpecQuery == InitFew /\ [][NextQuery]_vars

\* The dictionary under appends and round trips through the codec.
NextCodec == PushBackStep \/ MarshalBinaryStep \/ UnmarshalBinaryStep

SpecCodec == InitFew /\ [][NextCodec]_vars

\* The dictionary under appends that go into a second large block.
SpecLarge == InitLong /\ [][Next]_vars

\* The dictionary under appends that start a large block late.
SpecScan == InitScan /\ [][Next]_vars

\* The dictionary under appends that reach a second select sample.
NextSparse == PushBackStep \/ PushBlockStep

SpecSparse == InitSparse /\ [][NextSparse]_vars

\* ------------------------------------------------------------------------
\* Reference: the bit vector B[0 .. n)
\* ------------------------------------------------------------------------
\* The number of j < i with B[j] = b, for i <= Len(B).
CountUpTo(seq, i, b) == Cardinality({j \in 1..i : seq[j] = b})

Min(a, b) == IF a < b THEN a ELSE b

\* Positions beyond the end that the saturating queries are tried on.
Beyond == 2

\* Some flushed small block has an enumerative code (neither empty nor raw)
\* that lies across a word boundary of bits[].
RECURSIVE CodeOffset(_, _)
CodeOffset(d, s) ==
    IF s = 0 THEN 0
    ELSE CodeOffset(d, s - 1) + enumCodeLength[d.rankSmallBlocks[s]]

Straddles(d, s) ==
    LET len == enumCodeLength[d.rankSmallBlocks[s + 1]]
        off == CodeOffset(d, s)
    IN  /\ len > 0
        /\ len < smallBlockSize
        /\ (off % smallBlockSize) + len > smallBlockSize

\* ------------------------------------------------------------------------
\* Claims
\* ------------------------------------------------------------------------

\* C1: after PushBack of b_0..b_{n-1}, Num() = n, OneNum() is the number of
\* ones among them, ZeroNum() = n - OneNum(), and oneNum + zeroNum = num.
InvC1_Counts ==
    /\ Num(rs) = Len(B)
    /\ OneNum(rs) = CountUpTo(B, Len(B), TRUE)
    /\ ZeroNum(rs) = Len(B) - OneNum(rs)
    /\ rs.oneNum + rs.zeroNum = rs.num

WitC1_Counts ==
    /\ rs.num > 2 * smallBlockSize
    /\ rs.oneNum > smallBlockSize
    /\ rs.zeroNum > smallBlockSize

\* C2: Bit(i) = b_i for every i < n, in the pending block and in the flushed,
\* coded blocks.
InvC2_Bit == \A i \in 0..(Len(B) - 1) : Bit(rs, i) = B[i + 1]

WitC2_Bit ==
    /\ Len(rs.rankSmallBlocks) >= 2
    /\ Straddles(rs, 1)
    /\ rs.lastOneNum > 0
    /\ \E i \in smallBlockSize..(2 * smallBlockSize - 1) : Bit(rs, i)

\* C3: Rank(i, b) is the number of j < min(i, n) with b_j = b, for every i
\* (also i = n and i > n) and both b.
InvC3_Rank ==
    \A i \in 0..(Len(B) + Beyond) : \A b \in BOOLEAN :
        Rank(rs, i, b) = CountUpTo(B, Min(i, Len(B)), b)

WitC3_Rank ==
    /\ Len(rs.rankSmallBlocks) >= 2
    /\ Straddles(rs, 1)
    /\ rs.lastOneNum > 0
    /\ Rank(rs, 2 * smallBlockSize - 1, TRUE) > Rank(rs, smallBlockSize + 1, TRUE)
    /\ Rank(rs, rs.num + 1, TRUE) = rs.oneNum

\* C4: for k < the number of b-bits, p = Select(k, b) has p < num, Bit(p) = b
\* and Rank(p, b) = k: p is where the (k+1)-th b of B stands.
InvC4_Select ==
    \A b \in BOOLEAN :
        \A k \in 0..(CountUpTo(B, Len(B), b) - 1) :
            LET p == Select(rs, k, b)
            IN  /\ p < rs.num
                /\ Bit(rs, p) = b
                /\ Rank(rs, p, b) = k
                /\ B[p + 1] = b
                /\ CountUpTo(B, p, b) = k

WitC4_Select ==
    /\ Len(rs.rankSmallBlocks) >= 2
    /\ Straddles(rs, 1)
    /\ rs.lastOneNum > 0
    /\ rs.lastZeroNum > 0
    /\ \E k \in 0..(rs.oneNum - 1) :
          /\ Select(rs, k, TRUE) >= smallBlockSize
          /\ Select(rs, k, TRUE) < 2 * smallBlockSize
    /\ \E k \in 0..(rs.zeroNum - 1) :
          /\ Select(rs, k, FALSE) >= smallBlockSize
          /\ Select(rs, k, FALSE) < 2 * smallBlockSize
    /\ Select(rs, rs.oneNum - 1, TRUE) >= lastBlockInd(rs)
    /\ Select(rs, rs.zeroNum - 1, FALSE) >= lastBlockInd(rs)

\* C5: Select(k, b) = num for every k >= the number of b-bits, for both b,
\* on the empty dictionary too.
InvC5_SelectSaturates ==
    \A b \in BOOLEAN :
        \A k \in CountUpTo(B, Len(B), b)..(Len(B) + Beyond) :
            Select(rs, k, b) = rs.num

WitC5_SelectSaturates ==
    /\ Len(rs.rankSmallBlocks) >= 2
    /\ rs.oneNum > rs.lastOneNum
    /\ rs.lastOneNum > 0
    /\ rs.zeroNum > rs.lastZeroNum
    /\ rs.lastZeroNum > 0
    /\ Select(rs, rs.oneNum, TRUE) = rs.num
    /\ Select(rs, rs.zeroNum, FALSE) = rs.num

\* C6: for every i < num, BitAndRank(i) is the pair of Bit(i) and
\* Rank(i, Bit(i)), also at the multiples of the small-block size and in the
\* pending block.
InvC6_BitAndRank ==
    \A i \in 0..(rs.num - 1) :
        BitAndRank(rs, i) = <<Bit(rs, i), Rank(rs, i, Bit(rs, i))>>

WitC6_BitAndRank ==
    /\ Len(rs.rankSmallBlocks) >= 2
    /\ Straddles(rs, 1)
    /\ rs.num > 2 * smallBlockSize + 1
    /\ BitAndRank(rs, smallBlockSize)[2] > 0
    /\ BitAndRank(rs, 2 * smallBlockSize)[2] > BitAndRank(rs, smallBlockSize)[2]
    /\ BitAndRank(rs, rs.num - 1)[2] > BitAndRank(rs, 2 * smallBlockSize)[2]

\* C7: a dictionary filled by UnmarshalBinary from the MarshalBinary of D has
\* the 13 fields of D, and keeps having them while both receive the same
\* PushBacks; so every query answers the same on both.
InvC7_RoundTrip == att => rs2 = rs

WitC7_RoundTrip ==
    /\ att
    /\ out = NoOut
    /\ rs2.bits # << >>
    /\ Len(rs2.rankSmallBlocks) >= 2
    /\ rs2.lastOneNum # rs2.lastZeroNum
    /\ rs2.num = rs.num

\* The calls that are queries.
QueryOps ==
    {"Num", "OneNum", "ZeroNum", "Bit", "Rank", "Select", "Select1", "Select0",
     "BitAndRank", "AllocSize", "MarshalBinary"}

\* C8: a query (Num, OneNum, ZeroNum, Bit, Rank, Select, Select1, Select0,
\* BitAndRank, AllocSize, MarshalBinary) leaves the 13 fields as they were,
\* and answers the same when it is called again with the same arguments; a
\* step that changes a field is a PushBack.
PropC8_QueriesPure ==
    [][ /\ ret'.op \in QueryOps =>
            /\ rs' = rs
            /\ (ret.op = ret'.op /\ ret.arg = ret'.arg) => ret'.val = ret.val
        /\ rs' # rs => (B' # B /\ ret'.op = "none") ]_vars

WitC8_QueriesPure ==
    /\ ret.op = "Rank"
    /\ ret.arg = <<smallBlockSize - 1, TRUE>>
    /\ ret.val > 0
    /\ rs.bits # << >>
    /\ rs.lastOneNum > 0

\* Block s (from 0) of B holds 64 equal bits.
ConstantBlock(s) ==
    \A j \in 1..smallBlockSize :
        B[s * smallBlockSize + j] = B[s * smallBlockSize + 1]

\* The number of small blocks of n appended bits that have been flushed.
FlushedBlocks(n) == IF n = 0 THEN 0 ELSE (n - 1) \div smallBlockSize

\* C9: while every flushed small block is all zeros or all ones (after n
\* false bits, after n true bits), bits[] is empty and codeLen = 0.
InvC9_ConstantBlocks ==
    (\A s \in 0..(FlushedBlocks(Len(B)) - 1) : ConstantBlock(s))
        => (rs.bits = << >> /\ rs.codeLen = 0)

WitC9_ConstantBlocks ==
    /\ rs.rankSmallBlocks = <<smallBlockSize, 0>>
    /\ ConstantBlock(0)
    /\ ConstantBlock(1)
    /\ rs.bits = << >>

\* C10 as stated: lastOneNum + lastZeroNum = num mod 64, and when num is a
\* multiple of 64 the pending block is empty and rankSmallBlocks has num / 64
\* entries.
CexC10_PendingMod ==
    /\ rs.lastOneNum + rs.lastZeroNum = rs.num % smallBlockSize
    /\ (rs.num % smallBlockSize) = 0 =>
          /\ rs.lastOneNum + rs.lastZeroNum = 0
          /\ rs.lastBlock = Zero64
          /\ Len(rs.rankSmallBlocks) = rs.num \div smallBlockSize

\* C10: lastOneNum + lastZeroNum is the number of bits from lastBlockInd() to
\* num: 0 when num = 0 and ((num - 1) mod 64) + 1 otherwise; rankSmallBlocks
\* has (num - 1) div 64 entries when num > 0 and none when num = 0.  A full
\* block stays pending until the next PushBack.
InvC10_Pending ==
    /\ rs.lastOneNum + rs.lastZeroNum
          = (IF rs.num = 0 THEN 0 ELSE ((rs.num - 1) % smallBlockSize) + 1)
    /\ rs.lastOneNum = OnesCount64(rs.lastBlock)
    /\ Len(rs.rankSmallBlocks) = FlushedBlocks(rs.num)
    /\ rs.num = smallBlockSize * Len(rs.rankSmallBlocks)
                  + rs.lastOneNum + rs.lastZeroNum

WitC10_Pending ==
    /\ rs.num = 2 * smallBlockSize
    /\ rs.rankSmallBlocks = <<smallBlockSize>>
    /\ rs.lastOneNum = 0
    /\ rs.lastZeroNum = smallBlockSize

\* C11 as stated: in every state with num = m * 1024, m >= 1, rankBlocks and
\* pointerBlocks have m + 1 entries.
CexC11_IndexAtMultiple ==
    (rs.num > 0 /\ (rs.num % largeBlockSize) = 0) =>
        /\ Len(rs.rankBlocks) = (rs.num \div largeBlockSize) + 1
        /\ Len(rs.pointerBlocks) = (rs.num \div largeBlockSize) + 1

\* C11: the entry of large block m is appended by the PushBack that raises
\* num from m * 1024 to m * 1024 + 1: that call flushes the small block that
\* completed large block m - 1 and appends oneNum and codeLen as they are
\* before the new bit is written; no other step changes the two lists, so a
\* state with num = m * 1024, m >= 1, has m entries.
PropC11_IndexAtFirstBit ==
    [][ /\ (rs.num % largeBlockSize) = 0 =>
              /\ rs'.num = rs.num + 1
              /\ rs'.rankBlocks = Append(rs.rankBlocks, rs.oneNum)
              /\ rs'.pointerBlocks = Append(rs.pointerBlocks, rs'.codeLen)
              /\ Len(rs'.rankSmallBlocks) = rs.num \div smallBlockSize
        /\ (rs.num % largeBlockSize) # 0 =>
              /\ rs'.rankBlocks = rs.rankBlocks
              /\ rs'.pointerBlocks = rs.pointerBlocks
        /\ (rs'.num > 0 /\ (rs'.num % largeBlockSize) = 0) =>
              /\ Len(rs'.rankBlocks) = rs'.num \div largeBlockSize
              /\ Len(rs'.pointerBlocks) = rs'.num \div largeBlockSize ]_vars

WitC11_IndexAtFirstBit ==
    /\ rs.num = largeBlockSize + 1
    /\ Len(rs.rankBlocks) = 2
    /\ rs.rankBlocks[2] = CountUpTo(B, largeBlockSize, TRUE)
    /\ rs.rankBlocks[2] > 0
    /\ rs.pointerBlocks[2] = rs.codeLen
    /\ rs.pointerBlocks[2] > 0

\* C12: rankBlocks and pointerBlocks have ceil(num / 1024) entries each:
\* none while num = 0, and the entry of a large block from the PushBack of
\* its first bit on; the first entries are 0.
InvC12_IndexLength ==
    /\ Len(rs.rankBlocks) = (rs.num + largeBlockSize - 1) \div largeBlockSize
    /\ Len(rs.pointerBlocks) = Len(rs.rankBlocks)
    /\ rs.num >= 1 => (rs.rankBlocks[1] = 0 /\ rs.pointerBlocks[1] = 0)

WitC12_IndexLength ==
    /\ rs.num > largeBlockSize + smallBlockSize
    /\ Len(rs.rankBlocks) = 2
    /\ Len(rs.pointerBlocks) = 2
    /\ rs.codeLen > rs.pointerBlocks[2]

\* The spans between consecutive entries of a sample list.
Spans(inds) == {inds[k + 1] - inds[k] : k \in 1..(Len(inds) - 1)}

\* C13: consecutive select samples are less than 4096 / 1024 + 1 large blocks
\* apart, in selectOneInds and in selectZeroInds, so that the large-block scan
\* of Select1 and Select0, which starts at a sample, takes a bounded number of
\* steps.  PushBack samples every 4096th one (zero) wherever it stands, and
\* the statement fails as soon as two such bits are further apart.
CexC13_SpanBounded ==
    \A d \in Spans(rs.selectOneInds) \cup Spans(rs.selectZeroInds) :
        d < (selectBlockSize \div largeBlockSize) + 1

\* The sum of the code lengths of the small blocks from .. to - 1 of d.
RECURSIVE SumCodeLen(_, _, _)
SumCodeLen(d, from, to) ==
    IF from >= to THEN 0
    ELSE enumCodeLength[d.rankSmallBlocks[to]] + SumCodeLen(d, from, to - 1)

\* The bit offset that the walk from the entry of its large block gives to
\* small block s of d.
WalkOffset(d, s) ==
    LET l == s \div smallBlockPerLargeBlock
    IN  d.pointerBlocks[l + 1] + SumCodeLen(d, l * smallBlockPerLargeBlock, s)

\* The code of small block s of d, read at that offset.
CodeAt(d, s) ==
    getSlice(d.bits, WalkOffset(d, s), enumCodeLength[d.rankSmallBlocks[s + 1]])

\* C14: rankBlocks[L] is the number of ones before large block L; for every
\* flushed small block S the walk from the entry of its large block arrives
\* at the offset where the code of S was written (the sum of the lengths of
\* all codes before it), and the code read there decodes, bit by bit, to the
\* 64 bits of B in block S, in every later state as well.
InvC14_CodesDecode ==
    /\ \A l \in 0..(Len(rs.rankBlocks) - 1) :
          rs.rankBlocks[l + 1] = CountUpTo(B, l * largeBlockSize, TRUE)
    /\ \A s \in 0..(Len(rs.rankSmallBlocks) - 1) :
          /\ WalkOffset(rs, s) = CodeOffset(rs, s)
          /\ \A j \in 0..(smallBlockSize - 1) :
                enumBit(CodeAt(rs, s), rs.rankSmallBlocks[s + 1], j)
                    = B[s * smallBlockSize + j + 1]

WitC14_CodesDecode ==
    /\ Len(rs.rankSmallBlocks) = smallBlockPerLargeBlock + 2
    /\ rs.rankBlocks[2] > 0
    /\ rs.pointerBlocks[2] > 0
    /\ Straddles(rs, smallBlockPerLargeBlock + 1)
    /\ \E j \in 0..(smallBlockSize - 1) :
          enumBit(CodeAt(rs, smallBlockPerLargeBlock + 1),
                  rs.rankSmallBlocks[smallBlockPerLargeBlock + 2], j)

\* The flush that the next PushBack performs, when it performs one, writes
\* within bits[] after appending at most one word, and into zero bits.
NextFlushInRange ==
    (rs.num > 0 /\ (rs.num % smallBlockSize) = 0) =>
        LET len == enumCodeLength[rs.lastOneNum]
            block == rs.codeLen \div smallBlockSize
            offset == rs.codeLen % smallBlockSize
            newSize == floor(rs.codeLen + len, smallBlockSize)
            size == IF newSize > Len(rs.bits) THEN Len(rs.bits) + 1
                    ELSE Len(rs.bits)
        IN  /\ newSize = size
            /\ len > 0 => block + 1 <= size
            /\ (len > 0 /\ offset + len > smallBlockSize) => block + 2 <= size
            /\ (len > 0 /\ block + 1 <= Len(rs.bits)) =>
                  Shr64(rs.bits[block + 1], offset) = Zero64

\* C15: codeLen is the sum of the code lengths of the flushed small blocks,
\* bits[] has ceil(codeLen / 64) words, the bits of bits[] from offset
\* codeLen on are 0, and the next flush stays within bits[] with at most one
\* word appended.
InvC15_CodeLen ==
    /\ rs.codeLen = CodeOffset(rs, Len(rs.rankSmallBlocks))
    /\ Len(rs.bits) = (rs.codeLen + smallBlockSize - 1) \div smallBlockSize
    /\ (rs.codeLen % smallBlockSize) # 0 =>
          Shr64(rs.bits[Len(rs.bits)], rs.codeLen % smallBlockSize) = Zero64
    /\ NextFlushInRange

WitC15_CodeLen ==
    /\ rs.num > 0
    /\ (rs.num % smallBlockSize) = 0
    /\ Len(rs.bits) >= 2
    /\ (rs.codeLen % smallBlockSize) + enumCodeLength[rs.lastOneNum]
          > smallBlockSize
    /\ enumCodeLength[rs.lastOneNum] < smallBlockSize
    /\ \E s \in 0..(Len(rs.rankSmallBlocks) - 1) : Straddles(rs, s)

\* The bit of kind b with 0-based rank r stands in large block l of B.
RankInLargeBlock(r, b, l) ==
    /\ l * largeBlockSize < Len(B)
    /\ CountUpTo(B, l * largeBlockSize, b) <= r
    /\ r < CountUpTo(B, Min(Len(B), (l + 1) * largeBlockSize), b)

\* inds samples every 4096-th of the count bits of kind b by large block.
SamplesRight(inds, count, b) ==
    /\ Len(inds) = (count + selectBlockSize - 1) \div selectBlockSize
    /\ \A k \in 1..(Len(inds) - 1) : inds[k] <= inds[k + 1]
    /\ \A k \in 1..Len(inds) :
          RankInLargeBlock((k - 1) * selectBlockSize, b, inds[k])

\* C16: selectOneInds has ceil(oneNum / 4096) entries, non-decreasing, and
\* entry k is the large block of the one of rank k * 4096; the same for
\* selectZeroInds and the zeros.
InvC16_Samples ==
    /\ SamplesRight(rs.selectOneInds, rs.oneNum, TRUE)
    /\ SamplesRight(rs.selectZeroInds, rs.zeroNum, FALSE)

WitC16_Samples ==
    /\ Len(rs.selectOneInds) = 2
    /\ rs.selectOneInds[1] = 1
    /\ rs.selectOneInds[2] > rs.selectOneInds[1]
    /\ Len(rs.selectZeroInds) = 1
    /\ rs.selectZeroInds[1] = 0

\* The number of ones in small block s (from 0) of B.
BlockOnes(s) ==
    Cardinality({j \in 1..smallBlockSize : B[s * smallBlockSize + j]})

RECURSIVE SumRanks(_, _)
SumRanks(d, n) ==
    IF n = 0 THEN 0 ELSE d.rankSmallBlocks[n] + SumRanks(d, n - 1)

\* C17: the pending block holds the bits of B from lastBlockInd() to num,
\* where lastBlockInd() = ((num - 1) / 64) * 64 for num > 0 and 0 for num = 0:
\* bit j of lastBlock is that bit of B for j < num - lastBlockInd() and 0
\* above, lastOneNum is the popcount of lastBlock, and lastOneNum +
\* lastZeroNum = num - lastBlockInd(); right after a flush it holds the one
\* new bit.
InvC17_PendingBits ==
    LET ind == IF rs.num = 0 THEN 0
               ELSE ((rs.num - 1) \div smallBlockSize) * smallBlockSize
        n == rs.num - ind
    IN  /\ lastBlockInd(rs) = ind
        /\ \A j \in 0..(smallBlockSize - 1) :
              getBit(rs.lastBlock, j) = (j < n /\ B[ind + j + 1])
        /\ rs.lastOneNum = OnesCount64(rs.lastBlock)
        /\ rs.lastOneNum = CountUpTo(B, rs.num, TRUE) - CountUpTo(B, ind, TRUE)
        /\ rs.lastOneNum + rs.lastZeroNum = n
        /\ (rs.num % smallBlockSize) = 1 =>
              rs.lastOneNum + rs.lastZeroNum = 1

WitC17_PendingBits ==
    /\ Len(rs.rankSmallBlocks) >= 1
    /\ rs.rankSmallBlocks[1] > 0
    /\ rs.lastOneNum > 0
    /\ rs.lastZeroNum > rs.lastOneNum
    /\ lastBlockInd(rs) + rs.lastOneNum + rs.lastZeroNum = rs.num

\* C18: the flushed blocks and the pending block account for all bits and
\* all ones: num = 64 * len(rankSmallBlocks) + lastOneNum + lastZeroNum,
\* rankSmallBlocks[i] is the number of ones in small block i of B, and the
\* sum of rankSmallBlocks plus lastOneNum is oneNum.
InvC18_Accounting ==
    /\ rs.num = smallBlockSize * Len(rs.rankSmallBlocks)
                  + rs.lastOneNum + rs.lastZeroNum
    /\ \A s \in 0..(Len(rs.rankSmallBlocks) - 1) :
          /\ rs.rankSmallBlocks[s + 1] = BlockOnes(s)
          /\ rs.rankSmallBlocks[s + 1] \in 0..smallBlockSize
    /\ SumRanks(rs, Len(rs.rankSmallBlocks)) + rs.lastOneNum = rs.oneNum

WitC18_Accounting ==
    /\ Len(rs.rankSmallBlocks) > smallBlockPerLargeBlock
    /\ \E s \in 1..Len(rs.rankSmallBlocks) : rs.rankSmallBlocks[s] = 0
    /\ \E s \in 1..Len(rs.rankSmallBlocks) :
          rs.rankSmallBlocks[s] = smallBlockSize
    /\ rs.lastOneNum > 0
    /\ rs.lastZeroNum > 0

\* The number of bits of kind b in the small blocks before block s of B, for
\* s up to the number of flushed blocks.
PrefixCount(b) ==
    [s \in 0..Len(rs.rankSmallBlocks) |-> CountUpTo(B, s * smallBlockSize, b)]

\* The code that a walk arriving at small block s with bit offset pointer
\* reads lies within bits[].
SliceInRange(d, s, pointer) ==
    LET len == enumCodeLength[d.rankSmallBlocks[s + 1]]
    IN  len > 0 =>
          /\ (pointer \div smallBlockSize) + 1 <= Len(d.bits)
          /\ (pointer % smallBlockSize) + len > smallBlockSize =>
                (pointer \div smallBlockSize) + 2 <= Len(d.bits)

\* Select1(k), for the one of rank k that stands in flushed small block s.
Select1WalkRight(k, s) ==
    LET selectInd == k \div selectBlockSize
        l == s \div smallBlockPerLargeBlock
    IN  /\ selectInd + 1 <= Len(rs.selectOneInds)
        /\ rs.selectOneInds[selectInd + 1] <= l
        /\ rs.selectOneInds[selectInd + 1] < Len(rs.rankBlocks)
        /\ LET start == rs.selectOneInds[selectInd + 1]
               lblock == scanLarge1(rs, k, start)
           IN  /\ lblock > start
               /\ lblock - 1 = l
               /\ l + 1 <= Len(rs.pointerBlocks)
               /\ LET w == scanSmall1(rs, l * smallBlockPerLargeBlock,
                                      k - rs.rankBlocks[l + 1] + 1,
                                      rs.pointerBlocks[l + 1])
                  IN  /\ w[1] < Len(rs.rankSmallBlocks)
                      /\ w[1] = s
                      /\ 1 <= w[2]
                      /\ w[2] <= rs.rankSmallBlocks[s + 1]
                      /\ SliceInRange(rs, s, w[3])

\* Select0(k), for the zero of rank k that stands in flushed small block s.
Select0WalkRight(k, s) ==
    LET selectInd == k \div selectBlockSize
        l == s \div smallBlockPerLargeBlock
    IN  /\ selectInd + 1 <= Len(rs.selectZeroInds)
        /\ rs.selectZeroInds[selectInd + 1] <= l
        /\ rs.selectZeroInds[selectInd + 1] < Len(rs.rankBlocks)
        /\ LET start == rs.selectZeroInds[selectInd + 1]
               lblock == scanLarge0(rs, k, start)
           IN  /\ lblock > start
               /\ lblock - 1 = l
               /\ l + 1 <= Len(rs.pointerBlocks)
               /\ LET w == scanSmall0(rs, l * smallBlockPerLargeBlock,
                                      k - l * largeBlockSize
                                          + rs.rankBlocks[l + 1] + 1,
                                      rs.pointerBlocks[l + 1])
                  IN  /\ w[1] < Len(rs.rankSmallBlocks)
                      /\ w[1] = s
                      /\ 1 <= w[2]
                      /\ w[2] <= smallBlockSize - rs.rankSmallBlocks[s + 1]
                      /\ SliceInRange(rs, s, w[3])

\* C19: for every k whose answer is in a flushed block, Select1(k) and
\* Select0(k) find a sample that is at most the large block of the answer,
\* scan forward at least one large block, step back onto the large block of
\* the answer, and walk to the small block of the answer with remain between
\* 1 and the number of wanted bits in it, all indices within the slices.
InvC19_SelectWalk ==
    /\ rs.oneNum - rs.lastOneNum = PrefixCount(TRUE)[Len(rs.rankSmallBlocks)]
    /\ rs.zeroNum - rs.lastZeroNum = PrefixCount(FALSE)[Len(rs.rankSmallBlocks)]
    /\ LET ones == PrefixCount(TRUE)
           zeros == PrefixCount(FALSE)
       IN  \A s \in 0..(Len(rs.rankSmallBlocks) - 1) :
              /\ \A k \in ones[s]..(ones[s + 1] - 1) : Select1WalkRight(k, s)
              /\ \A k \in zeros[s]..(zeros[s + 1] - 1) : Select0WalkRight(k, s)

WitC19_SelectWalk ==
    /\ Len(rs.rankSmallBlocks) > smallBlockPerLargeBlock + 1
    /\ rs.selectOneInds = <<1>>
    /\ rs.selectZeroInds = <<0>>
    /\ scanLarge1(rs, rs.rankSmallBlocks[smallBlockPerLargeBlock + 1], 1) = 2
    /\ scanSmall1(rs, smallBlockPerLargeBlock,
                  rs.rankSmallBlocks[smallBlockPerLargeBlock + 1] + 1, 0)[1]
          = smallBlockPerLargeBlock + 1
    /\ scanLarge0(rs, largeBlockSize, 0) = 2
    /\ Select0(rs, largeBlockSize) > largeBlockSize

\* The pointer at which Select0(k) reads its code, k the rank of a zero of a
\* flushed block whose large block is l.
Select0Pointer(k, l) ==
    scanSmall0(rs, l * smallBlockPerLargeBlock,
               k - l * largeBlockSize + rs.rankBlocks[l + 1] + 1,
               rs.pointerBlocks[l + 1])[3]

\* C20: for every k below zeroNum - lastZeroNum, the small-block walk of
\* Select0, which advances the pointer by the code length of each block's
\* zero count, arrives at the bit offset reached by adding the code lengths
\* of the blocks' one counts, the offset at which the block was written.
InvC20_Select0Pointer ==
    LET zeros == PrefixCount(FALSE)
    IN  \A s \in 0..(Len(rs.rankSmallBlocks) - 1) :
          \A k \in zeros[s]..(zeros[s + 1] - 1) :
             /\ Select0Pointer(k, s \div smallBlockPerLargeBlock) = WalkOffset(rs, s)
             /\ Select0Pointer(k, s \div smallBlockPerLargeBlock) = CodeOffset(rs, s)

\* Select0 has walked over blocks whose one count and zero count differ and
\* whose codes are not empty.
WitC20_Select0Pointer ==
    /\ Len(rs.rankSmallBlocks) > 14
    /\ rs.rankSmallBlocks[12] \notin {0, smallBlockSize \div 2, smallBlockSize}
    /\ rs.rankSmallBlocks[13] \notin {0, smallBlockSize \div 2, smallBlockSize}
    /\ rs.rankSmallBlocks[12] # rs.rankSmallBlocks[13]
    /\ rs.rankSmallBlocks[15] < smallBlockSize
    /\ Select0Pointer(CountUpTo(B, 14 * smallBlockSize, FALSE), 0) = CodeOffset(rs, 14)
    /\ CodeOffset(rs, 14) > CodeOffset(rs, 11)
    /\ Select0(rs, CountUpTo(B, 14 * smallBlockSize, FALSE)) \div smallBlockSize = 14

====
